---- MODULE Spec2Model ----
(***************************************************************************)
(* Model of the jidoka CRM front-end: the template variable extractors,    *)
(* the default-mapping editor of the template detail page and the          *)
(* new-message notification filter.                                        *)
(*                                                                         *)
(* Texts are TLA+ strings; Len, SubSeq and \o work on them character by    *)
(* character, so the regular expressions of the source are modelled as     *)
(* scans over the characters of the text.                                  *)
(***************************************************************************)
EXTENDS Integers, Sequences, FiniteSets, TLC

VARIABLES
    \* TemplateDetailPage
    template,        \* state `template`, passed to the editor as its prop
    \* TemplateDefaultMappingEditor
    isEditing,       \* useState(false)
    mapping,         \* useState(template.default_variable_mapping || {})
    availableFields, \* useState([])
    saving,          \* useState(false)
    \* the network, as seen from the client
    fieldsRequest,   \* getAvailableFields() awaiting its response
    saveRequests,    \* updateTemplate() calls awaiting their response
    serverMapping,   \* the mapping stored by the template service
    \* the extractors' callers
    extracted,       \* `const variables = extractVariables()` of the last editor render
    variables,       \* TemplateVariableMapper state `variables`
    calls,           \* extractor calls made so far
    \* NotificationManager
    pathname,        \* location.pathname
    searchParams,    \* the id and contact_id query parameters
    toasts,          \* toast.success() calls made so far
    event,           \* contact_id of the last NEW_MESSAGE event delivered
    \* observation
    savesIssued,     \* updateTemplate() calls made so far
    onUpdateCalls,   \* onUpdate() calls made so far
    consoleErrors,   \* console.error() calls made so far
    lastSaved,       \* `mapping` of the handleSave call that succeeded last
    \* TemplateVariableMapper
    variableMapping, \* the variableMapping prop
    newMapping,      \* the argument of the last onChange() call
    changed,         \* the arguments of the last handleMappingChange() call
    \* CampaignDetails
    campaign,        \* the campaign prop: status and total_contacts
    activeTab,       \* useState("overview")
    showEditForm,    \* useState(false)
    showAddContacts, \* useState(false)
    showScheduleForm, \* the showScheduleForm prop, set through onShowScheduleForm
    \* QuickReplyModal
    content,         \* useState(reply?.content || { pl: "" }), keys in insertion order
    currentLang,     \* useState("pl")
    newLang,         \* useState("")
    \* SettingsPage
    account,         \* useState(null): the settings the server returned last
    settingsLoading, \* `loading`, useState(true)
    error,           \* useState(null)
    success,         \* useState(false)
    isSaving,        \* useState(false)
    isSyncing,       \* useState(false)
    formData,        \* useState({waba_id: '', name: 'Golden Cars', ...})
    accountRequest,  \* getWabaSettings() awaiting its response
    updateRequests,  \* updateWabaSettings() payloads awaiting their response
    syncRequest,     \* triggerWabaSync() awaiting its response
    reloadTimers,    \* pending setTimeout(() => loadAccountData(), 2000)
    successTimers,   \* pending setTimeout(() => setSuccess(false), 3000)
    submits,         \* updateWabaSettings() calls made so far
    syncs,           \* triggerWabaSync() calls made so far
    \* QuickRepliesPage
    quickReplies,    \* useState([]): the list on display
    loading,         \* useState(true)
    searchQuery,     \* useState('')
    debounce,        \* the setTimeout of the debounce effect is pending
    listRequests,    \* getQuickReplies() calls awaiting their response
    listIssued,      \* getQuickReplies() calls made so far
    listErrors,      \* console.error calls of loadQuickReplies
    last             \* the handler that ran last

(***************************************************************************)
(* Bounds of the input space.                                              *)
(***************************************************************************)
MaxPieces == 4          \* pieces in the text of a lone component
MaxComponents == 2      \* components of a template

(***************************************************************************)
(* JavaScript values.                                                      *)
(***************************************************************************)
Undefined == "<undefined>"     \* a missing property (undefined)
Null == "<null>"               \* JSON null / URLSearchParams miss

\* i-th character of s as a one-character string
CharAt(s, i) == SubSeq(s, i, i)

IsDigit(c) == c \in {"0", "1", "2", "3", "4", "5", "6", "7", "8", "9"}

DigitValue(c) ==
    CASE c = "0" -> 0 [] c = "1" -> 1 [] c = "2" -> 2 [] c = "3" -> 3
      [] c = "4" -> 4 [] c = "5" -> 5 [] c = "6" -> 6 [] c = "7" -> 7
      [] c = "8" -> 8 [] c = "9" -> 9

\* does s hold the literal lit at position i
HasAt(s, i, lit) ==
    /\ i >= 1
    /\ i + Len(lit) - 1 <= Len(s)
    /\ SubSeq(s, i, i + Len(lit) - 1) = lit

\* \d+ is greedy: index of the first non-digit at or after i
RECURSIVE DigitsEnd(_, _)
DigitsEnd(s, i) ==
    IF i <= Len(s) /\ IsDigit(CharAt(s, i)) THEN DigitsEnd(s, i + 1) ELSE i

\* faulty variant: the closing braces are optional
PlaceholderEndAtUnclosed(s, i) ==
    IF HasAt(s, i, "{{")
    THEN LET j == DigitsEnd(s, i + 2)
         IN  IF j > i + 2 THEN (IF HasAt(s, j, "}}") THEN j + 2 ELSE j) ELSE 0
    ELSE 0

\* /\{\{(\d+)\}\}/ tried at position i: index after the match, 0 if none
PlaceholderEndAt(s, i) ==
    IF HasAt(s, i, "{{")
    THEN LET j == DigitsEnd(s, i + 2)
         IN  IF j > i + 2 /\ HasAt(s, j, "}}") THEN j + 2 ELSE 0
    ELSE 0

\* text.match(/\{\{(\d+)\}\}/g): the matched substrings, left to right,
\* non-overlapping (an empty result stands for null)
RECURSIVE MatchPlaceholders(_, _)
MatchPlaceholders(s, i) ==
    IF i > Len(s) THEN << >>
    ELSE LET e == PlaceholderEndAt(s, i)
         IN  IF e = 0 THEN MatchPlaceholders(s, i + 1)
             ELSE <<SubSeq(s, i, e - 1)>> \o MatchPlaceholders(s, e)

\* match.replace(/\{\{|\}\}/g, ''): drop every "{{" and "}}" pair
RECURSIVE StripBracePairs(_, _)
StripBracePairs(s, i) ==
    IF i > Len(s) THEN ""
    ELSE IF HasAt(s, i, "{{") \/ HasAt(s, i, "}}")
         THEN StripBracePairs(s, i + 2)
         ELSE CharAt(s, i) \o StripBracePairs(s, i + 1)

\* match.replace(/[{}]/g, ""): drop every brace character
RECURSIVE StripBraces(_, _)
StripBraces(s, i) ==
    IF i > Len(s) THEN ""
    ELSE IF CharAt(s, i) \in {"{", "}"}
         THEN StripBraces(s, i + 1)
         ELSE CharAt(s, i) \o StripBraces(s, i + 1)

\* parseInt(a) of a string of decimal digits
RECURSIVE ParseDigits(_, _, _)
ParseDigits(s, i, acc) ==
    IF i <= Len(s) /\ IsDigit(CharAt(s, i))
    THEN ParseDigits(s, i + 1, 10 * acc + DigitValue(CharAt(s, i)))
    ELSE acc

parseInt(s) == ParseDigits(s, 1, 0)

\* the order of sort() without a comparator: by code units
RECURSIVE LexCompare(_, _, _)
LexCompare(a, b, i) ==
    IF i > Len(a) /\ i > Len(b) THEN 0
    ELSE IF i > Len(a) THEN -1
    ELSE IF i > Len(b) THEN 1
    ELSE IF CharAt(a, i) = CharAt(b, i) THEN LexCompare(a, b, i + 1)
    ELSE DigitValue(CharAt(a, i)) - DigitValue(CharAt(b, i))

\* faulty variant: the indices are compared as strings
CompareLexically(a, b) == LexCompare(a, b, 1)

\* the comparator (a, b) => parseInt(a) - parseInt(b)
CompareByInt(a, b) == parseInt(a) - parseInt(b)

\* insert x after every element that does not compare greater (stable)
RECURSIVE InsertSorted(_, _)
InsertSorted(sorted, x) ==
    IF sorted = << >> THEN <<x>>
    ELSE IF CompareByInt(Head(sorted), x) > 0
         THEN <<x>> \o sorted
         ELSE <<Head(sorted)>> \o InsertSorted(Tail(sorted), x)

\* faulty variant: the result is returned without the sort
Unsorted(seq) == seq

\* Array.prototype.sort with CompareByInt (stable since ES2019)
RECURSIVE SortByInt(_)
SortByInt(seq) ==
    IF seq = << >> THEN << >>
    ELSE InsertSorted(SortByInt(SubSeq(seq, 1, Len(seq) - 1)), seq[Len(seq)])

Includes(seq, x) == \E i \in 1..Len(seq) : seq[i] = x

\* push each element unless already included (first occurrence wins)
RECURSIVE PushDistinct(_, _)
PushDistinct(acc, seq) ==
    IF seq = << >> THEN acc
    ELSE PushDistinct(IF Includes(acc, Head(seq)) THEN acc
                      ELSE Append(acc, Head(seq)), Tail(seq))

\* a truthy component text: present and not the empty string
HasText(c) == c.text # Undefined /\ c.text # ""

BodyIndexes(components) ==
    {i \in 1..Len(components) : components[i].type = "BODY"}

Min(S) == CHOOSE m \in S : \A n \in S : m <= n

\* components.find((c) => c.type === 'BODY'): index of the first, 0 if none
FindBody(components) ==
    IF BodyIndexes(components) = {} THEN 0 ELSE Min(BodyIndexes(components))

StripAllPairs(matches) ==
    [i \in 1..Len(matches) |-> StripBracePairs(matches[i], 1)]

StripAllBraces(matches) ==
    [i \in 1..Len(matches) |-> StripBraces(matches[i], 1)]

\* extractVariables of TemplateDefaultMappingEditor
extractVariables(t) ==
    LET b == FindBody(t.components)
        found == IF b # 0 /\ HasText(t.components[b])
                 THEN PushDistinct(<< >>,
                        StripAllPairs(MatchPlaceholders(t.components[b].text, 1)))
                 ELSE << >>
    IN  SortByInt(found)

\* the Set filled by the loop over template.components
RECURSIVE CollectBodies(_, _, _)
CollectBodies(components, i, acc) ==
    IF i > Len(components) THEN acc
    ELSE CollectBodies(components, i + 1,
            IF components[i].type = "BODY" /\ HasText(components[i])
            THEN PushDistinct(acc,
                    StripAllBraces(MatchPlaceholders(components[i].text, 1)))
            ELSE acc)

\* extractTemplateVariables of TemplateVariableMapper
extractTemplateVariables(t) ==
    SortByInt(CollectBodies(t.components, 1, << >>))

(***************************************************************************)
(* Input space of the extractors: templates whose component texts are      *)
(* concatenations of pieces.                                               *)
(***************************************************************************)
Pieces == {"{{1}}", "{{2}}", "{{3}}", "{{9}}", "{{10}}", "{{01}}", "{{", "x}}", "1"}

ComponentTypes == {"HEADER", "BODY"}

RECURSIVE Concat(_)
Concat(ps) == IF ps = << >> THEN "" ELSE Head(ps) \o Concat(Tail(ps))

\* the texts made of at most n pieces, and the missing text
TextsUpTo(n) ==
    {Undefined} \cup {Concat(ps) : ps \in UNION {[1..m -> Pieces] : m \in 0..n}}

ComponentsUpTo(n) == [type : ComponentTypes, text : TextsUpTo(n)]

\* component lists: a lone component with a text of several pieces, or
\* several components with a text of one piece each
ComponentLists ==
    {<< >>}
    \cup {<<c>> : c \in ComponentsUpTo(MaxPieces)}
    \cup UNION {[1..k -> ComponentsUpTo(1)] : k \in 2..MaxComponents}

(***************************************************************************)
(* Mappings: objects from variable index to field reference.               *)
(* default_variable_mapping is optional; it is modelled as a tagged value  *)
(* so that a missing mapping and an empty object stay distinct.            *)
(***************************************************************************)
EmptyMapping == [k \in {} |-> ""]                         \* {}

AbsentMapping == [present |-> FALSE, entries |-> EmptyMapping]   \* undefined

PresentMapping(m) == [present |-> TRUE, entries |-> m]

\* default_variable_mapping || {}
OrEmpty(dm) == IF dm.present THEN dm.entries ELSE EmptyMapping

\* Object.keys(m).length
KeyCount(m) == Cardinality(DOMAIN m)

\* m[k] || ''
ValueOrEmpty(m, k) == IF k \in DOMAIN m THEN m[k] ELSE ""

\* { ...m, [k]: v }
SpreadSet(m, k, v) == [x \in DOMAIN m \cup {k} |-> IF x = k THEN v ELSE m[x]]

\* faulty variant: a mapping of one key is sent as undefined too
SavePayloadOffByOne(m) == IF KeyCount(m) > 1 THEN PresentMapping(m) ELSE AbsentMapping

\* the default_variable_mapping of the updateTemplate request body
SavePayload(m) == IF KeyCount(m) > 0 THEN PresentMapping(m) ELSE AbsentMapping

(***************************************************************************)
(* The wire (the api client is not part of this repository's sources): a   *)
(* mapping travels as the JSON members of an object, an undefined mapping  *)
(* as a missing member.                                                    *)
(***************************************************************************)
RECURSIVE Members(_, _)
Members(m, keys) ==
    IF keys = {} THEN << >>
    ELSE LET k == CHOOSE x \in keys : TRUE
         IN  <<<<k, m[k]>>>> \o Members(m, keys \ {k})

\* JSON.stringify of an optional mapping
ToJson(dm) ==
    IF dm.present THEN [member |-> TRUE, members |-> Members(dm.entries, DOMAIN dm.entries)]
    ELSE [member |-> FALSE, members |-> << >>]

\* JSON.parse: a member met twice keeps its last value
FromJson(json) ==
    IF json.member
    THEN PresentMapping(
            [k \in {json.members[i][1] : i \in 1..Len(json.members)} |->
                LET at == {i \in 1..Len(json.members) : json.members[i][1] = k}
                IN  json.members[CHOOSE i \in at : \A j \in at : j <= i][2]])
    ELSE AbsentMapping

\* a mapping as it arrives on the other side
OverTheWire(dm) == FromJson(ToJson(dm))

(***************************************************************************)
(* The field catalog.                                                      *)
(***************************************************************************)
\* `custom_data.${field}`
CustomValue(field) == "custom_data." \o field

\* the fields array built by loadAvailableFields from the response
BuildFields(response) ==
    [i \in 1..Len(response.standard_fields) |->
        [value |-> response.standard_fields[i], group |-> "standard"]]
    \o
    [i \in 1..Len(response.custom_fields) |->
        [value |-> CustomValue(response.custom_fields[i]), group |-> "custom"]]

\* the option values of one <select>: the unset option, then the catalog
OptionValues(fields) == {""} \cup {fields[i].value : i \in 1..Len(fields)}

\* the option a <select value={m[k] || ''}> shows: the first option (unset)
\* when no option carries the value
DisplayedValue(m, k, fields) ==
    IF ValueOrEmpty(m, k) \in OptionValues(fields) THEN ValueOrEmpty(m, k) ELSE ""

(***************************************************************************)
(* What TemplateDefaultMappingEditor renders.                              *)
(***************************************************************************)
\* faulty variant: no early return for a template without variables
RenderedWithoutNotice ==
    IF ~isEditing
    THEN {"viewTitle", "editButton"} \cup
         (IF KeyCount(mapping) > 0 THEN {"mappingRows"} ELSE {"notConfiguredNotice"})
    ELSE {"editTitle", "cancelButton", "saveButton", "selectors", "hint"}

Rendered ==
    IF Len(extracted) = 0
    THEN {"noVariablesNotice"}
    ELSE IF ~isEditing
         THEN {"viewTitle", "editButton"} \cup
              (IF KeyCount(mapping) > 0 THEN {"mappingRows"} ELSE {"notConfiguredNotice"})
         ELSE {"editTitle", "cancelButton", "saveButton", "selectors", "hint"}

\* faulty variant: a row or a selector only for the variables that are mapped
RenderedMappedKeys ==
    IF Len(extracted) = 0 THEN << >>
    ELSE SelectSeq(extracted, LAMBDA varIndex : varIndex \in DOMAIN mapping)

\* the keys of the elements variables.map() renders, in order: the rows of the
\* read-only view, shown when the mapping has a key, or the selectors
RenderedKeys ==
    IF Len(extracted) = 0 THEN << >>
    ELSE IF ~isEditing
         THEN (IF KeyCount(mapping) > 0 THEN extracted ELSE << >>)
         ELSE extracted

EditEnabled == "editButton" \in Rendered
CancelEnabled == "cancelButton" \in Rendered /\ ~saving     \* disabled={saving}

\* faulty variant: the Save button without disabled={saving}
SaveAlwaysEnabled == "saveButton" \in Rendered

SaveEnabled == "saveButton" \in Rendered /\ ~saving         \* disabled={saving}

(***************************************************************************)
(* The template service (not part of this repository's sources): it stores *)
(* the mapping it receives, a missing mapping clearing the stored one, and *)
(* returns the updated template.                                           *)
(***************************************************************************)
ServerStore(stored, payload) == payload

(***************************************************************************)
(* Bounds and inputs of the editor.                                        *)
(***************************************************************************)
MaxSaves == 2           \* updateTemplate() calls in one behaviour
MaxToasts == 3          \* toasts in one behaviour
MaxErrors == 2          \* console.error() calls after which no catalog load fails

EditorComponents == {
    <<[type |-> "HEADER", text |-> "{{3}}"],
      [type |-> "BODY", text |-> "Hi {{2}}, {{1}}"]>>,
    <<[type |-> "BODY", text |-> "Hi"]>>,
    <<[type |-> "BODY", text |-> ""]>>,
    <<[type |-> "BODY", text |-> Undefined]>>,
    <<[type |-> "HEADER", text |-> "{{3}}"]>> }

Obj1(k, v) == [x \in {k} |-> v]
Obj2(k1, v1, k2, v2) == [x \in {k1, k2} |-> IF x = k1 THEN v1 ELSE v2]

InitialMappings == {
    AbsentMapping,
    PresentMapping(EmptyMapping),
    PresentMapping(Obj1("1", "name")),
    PresentMapping(Obj2("1", "name", "2", "custom_data.city")),
    PresentMapping(Obj1("3", "name")) }

FieldsResponses == {
    [standard_fields |-> <<"name">>, custom_fields |-> <<"city">>],
    [standard_fields |-> <<"name">>, custom_fields |-> << >>] }

Paths == {"/dashboard", "/contacts", "/contacts/all", "/campaigns/contacts"}
ParamValues == {Null, "", "42", "7"}
EventContactIds == {Undefined, Null, "42", "7"}

pageVars == <<template>>
editorVars == <<isEditing, mapping, availableFields, saving>>
netVars == <<fieldsRequest, saveRequests, serverMapping>>
extractVars == <<extracted, variables, calls>>
notifyVars == <<pathname, searchParams, toasts, event>>
obsVars == <<savesIssued, onUpdateCalls, consoleErrors, lastSaved>>
mapperVars == <<variableMapping, newMapping, changed>>

\* the state of the components other than the editor, its page, the
\* extractors' callers and the notification manager
campaignVars == <<campaign, activeTab, showEditForm, showAddContacts, showScheduleForm>>
modalVars == <<content, currentLang, newLang>>
settingsVars == <<account, settingsLoading, error, success, isSaving, isSyncing,
                  formData, accountRequest, updateRequests, syncRequest,
                  reloadTimers, successTimers, submits, syncs>>
repliesVars == <<quickReplies, loading, searchQuery, debounce, listRequests,
                 listIssued, listErrors>>
otherVars == <<mapperVars, campaignVars, modalVars, settingsVars, repliesVars>>

\* the state of the editor, its page, the extractors' callers and the
\* notification manager
coreVars == <<pageVars, editorVars, netVars, extractVars, notifyVars, obsVars>>

\* everything but the state of one component
outsideMapper == <<coreVars, campaignVars, modalVars, settingsVars, repliesVars>>
outsideCampaign == <<coreVars, mapperVars, modalVars, settingsVars, repliesVars>>
outsideModal == <<coreVars, mapperVars, campaignVars, settingsVars, repliesVars>>
outsideSettings == <<coreVars, mapperVars, campaignVars, modalVars, repliesVars>>
outsideReplies == <<coreVars, mapperVars, campaignVars, modalVars, settingsVars>>

vars == <<template, isEditing, mapping, availableFields, saving,
          fieldsRequest, saveRequests, serverMapping,
          extracted, variables, calls,
          pathname, searchParams, toasts, event,
          savesIssued, onUpdateCalls, consoleErrors, lastSaved, last,
          otherVars>>

(***************************************************************************)
(* Initial states.                                                         *)
(***************************************************************************)
\* the editor just mounted on a loaded template: first render done, both
\* effects have run
EditorMounted ==
    /\ extracted = extractVariables(template)
    /\ variables = << >>
    /\ calls = {}
    /\ isEditing = FALSE
    /\ mapping = OrEmpty(template.default_variable_mapping)
    /\ availableFields = << >>
    /\ saving = FALSE
    /\ fieldsRequest = TRUE
    /\ saveRequests = << >>
    /\ serverMapping = template.default_variable_mapping
    /\ savesIssued = 0
    /\ onUpdateCalls = 0
    /\ consoleErrors = 0
    /\ lastSaved = EmptyMapping

\* no component rendered yet
NothingMounted ==
    /\ extracted = << >>
    /\ variables = << >>
    /\ calls = {}
    /\ isEditing = FALSE
    /\ mapping = EmptyMapping
    /\ availableFields = << >>
    /\ saving = FALSE
    /\ fieldsRequest = FALSE
    /\ saveRequests = << >>
    /\ serverMapping = template.default_variable_mapping
    /\ savesIssued = 0
    /\ onUpdateCalls = 0
    /\ consoleErrors = 0
    /\ lastSaved = EmptyMapping

NotificationsIdle ==
    /\ pathname = "/dashboard"
    /\ searchParams = [id |-> Null, contact_id |-> Null]
    /\ toasts = 0
    /\ event = Undefined

\* TemplateVariableMapper not rendered
MapperIdle ==
    /\ variableMapping = EmptyMapping
    /\ newMapping = EmptyMapping
    /\ changed = [variable |-> "", field |-> ""]

\* CampaignDetails not rendered
CampaignIdle ==
    /\ campaign = [status |-> "DRAFT", total_contacts |-> 0]
    /\ activeTab = "overview"
    /\ showEditForm = FALSE
    /\ showAddContacts = FALSE
    /\ showScheduleForm = FALSE

\* QuickReplyModal not rendered
ModalIdle ==
    /\ content = << >>
    /\ currentLang = "pl"
    /\ newLang = ""

\* the first formData of SettingsPage
InitialFormData ==
    [waba_id |-> "", name |-> "Golden Cars", access_token |-> "",
     app_secret |-> "", verify_token |-> "", graph_api_version |-> "v21.0"]

\* no settings: getWabaSettings() resolved with null, account is null
NoSettings == [present |-> FALSE]

\* SettingsPage not rendered
SettingsIdle ==
    /\ account = NoSettings
    /\ settingsLoading = TRUE
    /\ error = Null
    /\ success = FALSE
    /\ isSaving = FALSE
    /\ isSyncing = FALSE
    /\ formData = InitialFormData
    /\ accountRequest = FALSE
    /\ updateRequests = << >>
    /\ syncRequest = FALSE
    /\ reloadTimers = 0
    /\ successTimers = 0
    /\ submits = 0
    /\ syncs = 0

\* the list before any response: []
NoReplies == [for |-> "<none>"]

\* QuickRepliesPage not rendered
RepliesIdle ==
    /\ quickReplies = NoReplies
    /\ loading = TRUE
    /\ searchQuery = ""
    /\ debounce = FALSE
    /\ listRequests = << >>
    /\ listIssued = 0
    /\ listErrors = 0

OthersIdle ==
    MapperIdle /\ CampaignIdle /\ ModalIdle /\ SettingsIdle /\ RepliesIdle

Init ==
    /\ \E comps \in EditorComponents : \E dm \in InitialMappings :
          template = [components |-> comps, default_variable_mapping |-> dm]
    /\ EditorMounted
    /\ NotificationsIdle
    /\ OthersIdle
    /\ last = "mount"

(***************************************************************************)
(* TemplateDefaultMappingEditor.                                           *)
(***************************************************************************)
\* loadAvailableFields: the response arrives
LoadAvailableFieldsResolved ==
    /\ fieldsRequest
    /\ \E response \in FieldsResponses :
          availableFields' = BuildFields(response)
    /\ fieldsRequest' = FALSE
    /\ last' = "fieldsLoaded"
    /\ UNCHANGED <<template, isEditing, mapping, saving, saveRequests, serverMapping>>
    /\ UNCHANGED <<extractVars, notifyVars, obsVars>>
    /\ UNCHANGED otherVars

\* faulty variant: a failed catalog request also closes the editor
LoadAvailableFieldsRejectedFatal ==
    /\ fieldsRequest
    /\ consoleErrors < MaxErrors
    /\ fieldsRequest' = FALSE
    /\ consoleErrors' = consoleErrors + 1
    /\ isEditing' = FALSE
    /\ last' = "fieldsFailed"
    /\ UNCHANGED <<pageVars, mapping, availableFields, saving, saveRequests, serverMapping>>
    /\ UNCHANGED <<extractVars, notifyVars, savesIssued, onUpdateCalls, lastSaved>>
    /\ UNCHANGED otherVars

\* loadAvailableFields: the request fails; the catch block logs
LoadAvailableFieldsRejected ==
    /\ fieldsRequest
    /\ consoleErrors < MaxErrors
    /\ fieldsRequest' = FALSE
    /\ consoleErrors' = consoleErrors + 1
    /\ last' = "fieldsFailed"
    /\ UNCHANGED <<pageVars, editorVars, saveRequests, serverMapping>>
    /\ UNCHANGED <<extractVars, notifyVars, savesIssued, onUpdateCalls, lastSaved>>
    /\ UNCHANGED otherVars

\* the Edit / Configure button: setIsEditing(true)
EditClick ==
    /\ EditEnabled
    /\ isEditing' = TRUE
    /\ last' = "edit"
    /\ UNCHANGED <<template, mapping, availableFields, saving>>
    /\ UNCHANGED <<netVars, extractVars, notifyVars, obsVars>>
    /\ UNCHANGED otherVars

\* faulty variant: the selected field becomes the key, the variable the value
SelectOnChangeSwapped(m, varIndex, value) == SpreadSet(m, value, varIndex)

\* the change event of the <select> of one variable
SelectOnChange(m, varIndex, value) ==SpreadSet(m, varIndex, value)

\* faulty variant: the handler also writes the selection into the template
\* prop it was given
SelectChangeInPlace ==
    /\ "selectors" \in Rendered
    /\ \E i \in 1..Len(extracted) :
       \E value \in OptionValues(availableFields) :
          LET varIndex == extracted[i]
          IN  /\ value # DisplayedValue(mapping, varIndex, availableFields)
              /\ mapping' = SelectOnChange(mapping, varIndex, value)
              /\ template' = [template EXCEPT !.default_variable_mapping =
                                PresentMapping(SelectOnChange(mapping, varIndex, value))]
    /\ last' = "select"
    /\ UNCHANGED <<isEditing, availableFields, saving>>
    /\ UNCHANGED <<netVars, extractVars, notifyVars, obsVars>>
    /\ UNCHANGED otherVars

SelectChange ==
    /\ "selectors" \in Rendered
    /\ \E i \in 1..Len(extracted) :
       \E value \in OptionValues(availableFields) :
          LET varIndex == extracted[i]
          IN  /\ value # DisplayedValue(mapping, varIndex, availableFields)
              /\ mapping' = SelectOnChange(mapping, varIndex, value)
    /\ last' = "select"
    /\ UNCHANGED <<template, isEditing, availableFields, saving>>
    /\ UNCHANGED <<netVars, extractVars, notifyVars, obsVars>>
    /\ UNCHANGED otherVars

\* faulty variant: Cancel closes the editor and keeps the scratch mapping
CancelKeepsScratch ==
    /\ CancelEnabled
    /\ isEditing' = FALSE
    /\ last' = "cancel"
    /\ UNCHANGED <<template, mapping, availableFields, saving>>
    /\ UNCHANGED <<netVars, extractVars, notifyVars, obsVars>>
    /\ UNCHANGED otherVars

\* the Cancel button
CancelClick ==
    /\ CancelEnabled
    /\ mapping' = OrEmpty(template.default_variable_mapping)
    /\ isEditing' = FALSE
    /\ last' = "cancel"
    /\ UNCHANGED <<template, availableFields, saving>>
    /\ UNCHANGED <<netVars, extractVars, notifyVars, obsVars>>
    /\ UNCHANGED otherVars

\* an updateTemplate call awaiting its response: the payload sent, and the
\* `mapping` captured by the handleSave call that waits for it
SaveRequest(m) ==
    [present |-> SavePayload(m).present, entries |-> SavePayload(m).entries,
     scratch |-> m]

PayloadOf(request) == [present |-> request.present, entries |-> request.entries]

\* faulty variant: the request carries the persisted mapping of the template
\* prop, not the scratch mapping
HandleSaveSendsPersisted ==
    /\ SaveEnabled
    /\ savesIssued < MaxSaves
    /\ saving' = TRUE
    /\ saveRequests' = Append(saveRequests,
                              SaveRequest(OrEmpty(template.default_variable_mapping)))
    /\ savesIssued' = savesIssued + 1
    /\ last' = "save"
    /\ UNCHANGED <<template, isEditing, mapping, availableFields>>
    /\ UNCHANGED <<fieldsRequest, serverMapping, extractVars, notifyVars>>
    /\ UNCHANGED <<onUpdateCalls, consoleErrors, lastSaved>>
    /\ UNCHANGED otherVars

\* handleSave up to the await: setSaving(true) and the request
HandleSave ==
    /\ SaveEnabled
    /\ savesIssued < MaxSaves
    /\ saving' = TRUE
    /\ saveRequests' = Append(saveRequests, SaveRequest(mapping))
    /\ savesIssued' = savesIssued + 1
    /\ last' = "save"
    /\ UNCHANGED <<template, isEditing, mapping, availableFields>>
    /\ UNCHANGED <<fieldsRequest, serverMapping, extractVars, notifyVars>>
    /\ UNCHANGED <<onUpdateCalls, consoleErrors, lastSaved>>
    /\ UNCHANGED otherVars

RemoveAt(seq, i) == SubSeq(seq, 1, i - 1) \o SubSeq(seq, i + 1, Len(seq))

\* faulty variant: the editor has no [template] effect, so a fulfilled save
\* leaves `mapping` as the selectors last set it
ResolvedWithoutEffect ==
    /\ \E i \in 1..Len(saveRequests) :
          LET stored == ServerStore(serverMapping,
                                    OverTheWire(PayloadOf(saveRequests[i])))
              updatedTemplate == [template EXCEPT !.default_variable_mapping =
                                    OverTheWire(stored)]
          IN  /\ serverMapping' = stored
              /\ lastSaved' = saveRequests[i].scratch
              /\ template' = updatedTemplate
              /\ extracted' = extractVariables(updatedTemplate)
              /\ saveRequests' = RemoveAt(saveRequests, i)
    /\ onUpdateCalls' = onUpdateCalls + 1
    /\ isEditing' = FALSE
    /\ saving' = FALSE
    /\ last' = "saveOk"
    /\ UNCHANGED <<mapping, availableFields, fieldsRequest, variables, calls, notifyVars>>
    /\ UNCHANGED <<savesIssued, consoleErrors>>
    /\ UNCHANGED otherVars

\* handleSave after the await, request fulfilled: onUpdate(updatedTemplate)
\* (the page's setTemplate), setIsEditing(false), setSaving(false), then the
\* [template] effect of the editor
UpdateTemplateResolved ==
    /\ \E i \in 1..Len(saveRequests) :
          LET stored == ServerStore(serverMapping,
                                    OverTheWire(PayloadOf(saveRequests[i])))
              updatedTemplate == [template EXCEPT !.default_variable_mapping =
                                    OverTheWire(stored)]
          IN  /\ serverMapping' = stored
              /\ lastSaved' = saveRequests[i].scratch
              /\ template' = updatedTemplate
              /\ extracted' = extractVariables(updatedTemplate)
              /\ mapping' = OrEmpty(updatedTemplate.default_variable_mapping)
              /\ saveRequests' = RemoveAt(saveRequests, i)
    /\ onUpdateCalls' = onUpdateCalls + 1
    /\ isEditing' = FALSE
    /\ saving' = FALSE
    /\ last' = "saveOk"
    /\ UNCHANGED <<availableFields, fieldsRequest, variables, calls, notifyVars>>
    /\ UNCHANGED <<savesIssued, consoleErrors>>
    /\ UNCHANGED otherVars

\* faulty variant: no finally block, a failed save leaves the flag set
RejectedKeepsSaving ==
    /\ \E i \in 1..Len(saveRequests) :
          saveRequests' = RemoveAt(saveRequests, i)
    /\ consoleErrors' = consoleErrors + 1
    /\ last' = "saveFailed"
    /\ UNCHANGED <<template, isEditing, mapping, availableFields, saving, fieldsRequest>>
    /\ UNCHANGED <<serverMapping, extractVars, notifyVars, savesIssued, onUpdateCalls>>
    /\ UNCHANGED lastSaved
    /\ UNCHANGED otherVars

\* handleSave after the await, request rejected (network failure or a
\* payload the server refuses): the catch block logs, finally clears the flag
UpdateTemplateRejected ==
    /\ \E i \in 1..Len(saveRequests) :
          saveRequests' = RemoveAt(saveRequests, i)
    /\ consoleErrors' = consoleErrors + 1
    /\ saving' = FALSE
    /\ last' = "saveFailed"
    /\ UNCHANGED <<template, isEditing, mapping, availableFields, fieldsRequest>>
    /\ UNCHANGED <<serverMapping, extractVars, notifyVars, savesIssued, onUpdateCalls>>
    /\ UNCHANGED lastSaved
    /\ UNCHANGED otherVars

\* the detail page is opened again once no save is outstanding: loadTemplate
\* fetches the template and a new editor mounts on it
ReloadTemplate ==
    /\ saveRequests = << >>
    /\ LET data == [template EXCEPT !.default_variable_mapping =
                        OverTheWire(serverMapping)]
       IN  /\ template' = data
           /\ extracted' = extractVariables(data)
           /\ mapping' = OrEmpty(data.default_variable_mapping)
    /\ isEditing' = FALSE
    /\ availableFields' = << >>
    /\ saving' = FALSE
    /\ fieldsRequest' = TRUE
    /\ last' = "reload"
    /\ UNCHANGED <<saveRequests, serverMapping, variables, calls, notifyVars, obsVars>>
    /\ UNCHANGED otherVars

Next ==
    \/ LoadAvailableFieldsResolved
    \/ LoadAvailableFieldsRejected
    \/ EditClick
    \/ SelectChange
    \/ CancelClick
    \/ HandleSave
    \/ UpdateTemplateResolved
    \/ UpdateTemplateRejected
    \/ ReloadTemplate

Spec == Init /\ [][Next]_vars

(***************************************************************************)
(* The extractors on every template of the input space.                    *)
(***************************************************************************)
InitExtract ==
    /\ \E comps \in ComponentLists :
          template = [components |-> comps, default_variable_mapping |-> AbsentMapping]
    /\ NothingMounted
    /\ NotificationsIdle
    /\ OthersIdle
    /\ last = "mount"

\* a render of TemplateDefaultMappingEditor: const variables = extractVariables()
RenderEditor ==
    /\ "extractVariables" \notin calls
    /\ extracted' = extractVariables(template)
    /\ calls' = calls \cup {"extractVariables"}
    /\ UNCHANGED <<pageVars, editorVars, netVars, variables, notifyVars, obsVars, last>>
    /\ UNCHANGED otherVars

\* the [template] effect of TemplateVariableMapper
MapperEffect ==
    /\ "extractTemplateVariables" \notin calls
    /\ variables' = extractTemplateVariables(template)
    /\ calls' = calls \cup {"extractTemplateVariables"}
    /\ UNCHANGED <<pageVars, editorVars, netVars, extracted, notifyVars, obsVars, last>>
    /\ UNCHANGED otherVars

NextExtract == RenderEditor \/ MapperEffect

SpecExtract == InitExtract /\ [][NextExtract]_vars

(***************************************************************************)
(* NotificationManager.                                                    *)
(***************************************************************************)
\* String.prototype.includes / startsWith
StringIncludes(s, lit) == \E i \in 1..Len(s) : HasAt(s, i, lit)
StartsWith(s, lit) == HasAt(s, 1, lit)

\* faulty variant: contact_id is read first
ActiveContactIdFromContactId(sp) ==
    IF sp.contact_id # Null /\ sp.contact_id # "" THEN sp.contact_id ELSE sp.id

\* searchParams.get("id") || searchParams.get("contact_id")
ActiveContactId(sp) ==
    IF sp.id # Null /\ sp.id # "" THEN sp.id ELSE sp.contact_id

\* isChatOpen of the NEW_MESSAGE handler
IsChatOpen(path, sp, contactId) ==
    /\ StringIncludes(path, "/contacts")
    /\ ActiveContactId(sp) = contactId

\* the router moves to another location
Navigate ==
    /\ \E path \in Paths : \E id \in ParamValues : \E cid \in ParamValues :
          /\ pathname' = path
          /\ searchParams' = [id |-> id, contact_id |-> cid]
    /\ last' = "navigate"
    /\ UNCHANGED <<pageVars, editorVars, netVars, extractVars, toasts, event, obsVars>>
    /\ UNCHANGED otherVars

\* faulty variant: a delivery that repeats the event just notified is dropped
NewMessageDeduplicated ==
    /\ toasts < MaxToasts
    /\ \E contactId \in EventContactIds :
          /\ event' = contactId
          /\ IF \/ IsChatOpen(pathname, searchParams, contactId)
                \/ (last = "toast" /\ event = contactId)
             THEN /\ toasts' = toasts
                  /\ last' = "suppressed"
             ELSE /\ toasts' = toasts + 1
                  /\ last' = "toast"
    /\ UNCHANGED <<pageVars, editorVars, netVars, extractVars, pathname, searchParams, obsVars>>
    /\ UNCHANGED otherVars

\* one delivery of a NEW_MESSAGE event
NewMessage ==
    /\ toasts < MaxToasts
    /\ \E contactId \in EventContactIds :
          /\ event' = contactId
          /\ IF IsChatOpen(pathname, searchParams, contactId)
             THEN /\ toasts' = toasts
                  /\ last' = "suppressed"
             ELSE /\ toasts' = toasts + 1
                  /\ last' = "toast"
    /\ UNCHANGED <<pageVars, editorVars, netVars, extractVars, pathname, searchParams, obsVars>>
    /\ UNCHANGED otherVars

InitNotify ==
    /\ template = [components |-> << >>, default_variable_mapping |-> AbsentMapping]
    /\ NothingMounted
    /\ NotificationsIdle
    /\ OthersIdle
    /\ last = "mount"

NextNotify == Navigate \/ NewMessage

SpecNotify == InitNotify /\ [][NextNotify]_vars

(***************************************************************************)
(* TemplateVariableMapper (the campaign variable mapper).                  *)
(***************************************************************************)
MapperComponents == <<[type |-> "BODY", text |-> "{{1}} {{2}} {{3}}"]>>

\* the values a variableMapping prop may hold (a default mapping saved by
\* the editor can hold empty strings)
MapperValues == {"", "name", "custom_data.city"}

MapperMappings == UNION {[K -> MapperValues] : K \in SUBSET {"1", "2", "3"}}

\* the availableFields prop: AvailableFieldsResponse | null
MapperCatalogs ==
    {[present |-> TRUE, standard_fields |-> r.standard_fields,
      custom_fields |-> r.custom_fields] : r \in FieldsResponses}
    \cup {[present |-> FALSE, standard_fields |-> << >>, custom_fields |-> << >>]}

\* allFields of TemplateVariableMapper
allFields(fields) ==
    IF fields.present THEN BuildFields(fields) ELSE << >>

\* delete m[k]
DeleteKey(m, k) == [x \in DOMAIN m \ {k} |-> m[x]]

\* faulty variant: an empty field is stored like any other
handleMappingChangeKeepsEmpty(m, variable, field) == SpreadSet(m, variable, field)

\* the mapping handleMappingChange hands to onChange
handleMappingChange(m, variable, field) ==
    IF field # "" THEN SpreadSet(m, variable, field) ELSE DeleteKey(m, variable)

\* the change event of the <select> of one variable: handleMappingChange
MapperSelectChange ==
    /\ Len(variables) > 0
    /\ \E i \in 1..Len(variables) :
       \E fields \in MapperCatalogs :
       \E field \in OptionValues(allFields(fields)) :
          /\ field # DisplayedValue(variableMapping, variables[i], allFields(fields))
          /\ newMapping' = handleMappingChange(variableMapping, variables[i], field)
          /\ changed' = [variable |-> variables[i], field |-> field]
    /\ last' = "mapperChange"
    /\ UNCHANGED <<variableMapping, outsideMapper>>

InitMapper ==
    /\ template = [components |-> MapperComponents,
                   default_variable_mapping |-> AbsentMapping]
    /\ NothingMounted
    /\ NotificationsIdle
    /\ variableMapping \in MapperMappings
    /\ newMapping = EmptyMapping
    /\ changed = [variable |-> "", field |-> ""]
    /\ CampaignIdle
    /\ ModalIdle
    /\ SettingsIdle
    /\ RepliesIdle
    /\ last = "mount"

NextMapper == MapperEffect \/ MapperSelectChange

SpecMapper == InitMapper /\ [][NextMapper]_vars

(***************************************************************************)
(* CampaignDetails.                                                        *)
(***************************************************************************)
MaxContacts == 2        \* total_contacts of a campaign

CampaignStatuses == {"DRAFT", "SCHEDULED", "RUNNING", "PAUSED", "COMPLETED", "FAILED"}

Campaigns == [status : CampaignStatuses, total_contacts : 0..MaxContacts]

canEdit == campaign.status = "DRAFT"
canSchedule == campaign.status = "DRAFT"

\* faulty variant: Start is offered without contacts too
canStartWithoutContacts == campaign.status \in {"DRAFT", "SCHEDULED"}

canStart ==
    /\ campaign.status \in {"DRAFT", "SCHEDULED"}
    /\ campaign.total_contacts > 0

canPause == campaign.status = "RUNNING"
canResume == campaign.status = "PAUSED"

\* the action buttons CampaignDetails renders: those of the header and the
\* one of the contacts tab
CampaignButtons ==
    (IF canEdit THEN {"edit"} ELSE {}) \cup
    (IF canSchedule THEN {"schedule"} ELSE {}) \cup
    (IF canStart THEN {"start"} ELSE {}) \cup
    (IF canPause THEN {"pause"} ELSE {}) \cup
    (IF canResume THEN {"resume"} ELSE {}) \cup
    (IF activeTab = "contacts" /\ canEdit THEN {"addContacts"} ELSE {})

\* the parent renders the view with the campaign as it is now
CampaignChanged ==
    /\ \E c \in Campaigns : c # campaign /\ campaign' = c
    /\ last' = "campaign"
    /\ UNCHANGED <<activeTab, showEditForm, showAddContacts, showScheduleForm>>
    /\ UNCHANGED outsideCampaign

\* a tab button: setActiveTab
SetActiveTab ==
    /\ \E tab \in {"overview", "contacts"} : activeTab' = tab
    /\ last' = "tab"
    /\ UNCHANGED <<campaign, showEditForm, showAddContacts, showScheduleForm>>
    /\ UNCHANGED outsideCampaign

\* one of the buttons that open a form: setShowEditForm(true),
\* onShowScheduleForm(true), setShowAddContacts(true)
OpenFormClick ==
    /\ \E button \in CampaignButtons \cap {"edit", "schedule", "addContacts"} :
          /\ showEditForm' = (showEditForm \/ button = "edit")
          /\ showScheduleForm' = (showScheduleForm \/ button = "schedule")
          /\ showAddContacts' = (showAddContacts \/ button = "addContacts")
          /\ last' = button
    /\ UNCHANGED <<campaign, activeTab>>
    /\ UNCHANGED outsideCampaign

\* onCancel of a form, or the end of handleUpdate / handleSchedule
CloseForm ==
    /\ \E form \in {"edit", "schedule", "addContacts"} :
          /\ form = "edit" => showEditForm
          /\ form = "schedule" => showScheduleForm
          /\ form = "addContacts" => showAddContacts
          /\ showEditForm' = (showEditForm /\ form # "edit")
          /\ showScheduleForm' = (showScheduleForm /\ form # "schedule")
          /\ showAddContacts' = (showAddContacts /\ form # "addContacts")
    /\ last' = "close"
    /\ UNCHANGED <<campaign, activeTab>>
    /\ UNCHANGED outsideCampaign

\* Start, Pause or Resume: onStart / onPause / onResume (campaign.id)
RunControlClick ==
    /\ \E button \in CampaignButtons \cap {"start", "pause", "resume"} :
          last' = button
    /\ UNCHANGED campaignVars
    /\ UNCHANGED outsideCampaign

InitCampaign ==
    /\ template = [components |-> << >>, default_variable_mapping |-> AbsentMapping]
    /\ NothingMounted
    /\ NotificationsIdle
    /\ MapperIdle
    /\ campaign \in Campaigns
    /\ activeTab = "overview"
    /\ showEditForm = FALSE
    /\ showAddContacts = FALSE
    /\ showScheduleForm = FALSE
    /\ ModalIdle
    /\ SettingsIdle
    /\ RepliesIdle
    /\ last = "mount"

NextCampaign ==
    \/ CampaignChanged
    \/ SetActiveTab
    \/ OpenFormClick
    \/ CloseForm
    \/ RunControlClick

SpecCampaign == InitCampaign /\ [][NextCampaign]_vars

(***************************************************************************)
(* QuickReplyModal.  The content object is a sequence of [lang, text]      *)
(* entries, in the insertion order Object.keys() reports.                  *)
(***************************************************************************)
\* Object.keys(content)
ObjectKeys(obj) == [i \in 1..Len(obj) |-> obj[i].lang]

HasKey(obj, k) == \E i \in 1..Len(obj) : obj[i].lang = k

\* content[k] || ""
TextOrBlank(obj, k) ==
    IF HasKey(obj, k)
    THEN obj[CHOOSE i \in 1..Len(obj) : obj[i].lang = k].text
    ELSE ""

\* { ...obj, [k]: v }: an existing key keeps its place, a new one goes last
SpreadPut(obj, k, v) ==
    IF HasKey(obj, k)
    THEN [i \in 1..Len(obj) |-> IF obj[i].lang = k THEN [lang |-> k, text |-> v] ELSE obj[i]]
    ELSE Append(obj, [lang |-> k, text |-> v])

\* delete obj[k]
DeleteLang(obj, k) == SelectSeq(obj, LAMBDA entry : entry.lang # k)

\* String.prototype.toLowerCase on the letters of the inputs
LowerChar(c) ==
    CASE c = "E" -> "e" [] c = "N" -> "n" [] OTHER -> c

RECURSIVE ToLowerCase(_)
ToLowerCase(str) ==
    IF str = "" THEN ""
    ELSE LowerChar(CharAt(str, 1)) \o ToLowerCase(SubSeq(str, 2, Len(str)))

\* str.slice(0, n)
SliceTo(str, n) == SubSeq(str, 1, IF Len(str) < n THEN Len(str) ELSE n)

\* the reply prop: null, or a quick reply with its content
ModalReplies == {
    << >>,
    <<[lang |-> "pl", text |-> "Czesc"]>>,
    <<[lang |-> "en", text |-> "Hello"]>>,
    <<[lang |-> "pl", text |-> "Czesc"], [lang |-> "en", text |-> "Hello"]>> }

\* what the user types into the language input and the textarea
TypedLangs == {"", "en", "EN", "pl", "ukraine"}
TypedTexts == {"", "Hi"}

\* the language input: setNewLang(e.target.value.toLowerCase().slice(0, 5))
NewLangChange ==
    /\ \E typed \in TypedLangs : newLang' = SliceTo(ToLowerCase(typed), 5)
    /\ last' = "newLang"
    /\ UNCHANGED <<content, currentLang>>
    /\ UNCHANGED outsideModal

\* the add button (disabled without a new language): handleAddLanguage
HandleAddLanguage ==
    /\ newLang # ""
    /\ ~HasKey(content, newLang)
    /\ content' = SpreadPut(content, newLang, "")
    /\ currentLang' = newLang
    /\ newLang' = ""
    /\ last' = "addLanguage"
    /\ UNCHANGED outsideModal

\* the remove button of a tab (rendered with more than one language):
\* handleRemoveLanguage
HandleRemoveLanguage ==
    /\ Len(content) > 1
    /\ \E i \in 1..Len(content) :
          LET lang == content[i].lang
              newContent == DeleteLang(content, lang)
          IN  /\ content' = newContent
              /\ currentLang' = IF currentLang = lang
                                THEN ObjectKeys(newContent)[1]
                                ELSE currentLang
    /\ last' = "removeLanguage"
    /\ UNCHANGED newLang
    /\ UNCHANGED outsideModal

\* a language tab: setCurrentLang(lang)
SelectTab ==
    /\ \E i \in 1..Len(content) : currentLang' = content[i].lang
    /\ last' = "selectTab"
    /\ UNCHANGED <<content, newLang>>
    /\ UNCHANGED outsideModal

\* the textarea: setContent({ ...content, [currentLang]: e.target.value })
TextChange ==
    /\ \E value \in TypedTexts :
          /\ value # TextOrBlank(content, currentLang)
          /\ content' = SpreadPut(content, currentLang, value)
    /\ last' = "text"
    /\ UNCHANGED <<currentLang, newLang>>
    /\ UNCHANGED outsideModal

InitModal ==
    /\ template = [components |-> << >>, default_variable_mapping |-> AbsentMapping]
    /\ NothingMounted
    /\ NotificationsIdle
    /\ MapperIdle
    /\ CampaignIdle
    /\ \E reply \in ModalReplies :
          content = IF reply = << >> THEN <<[lang |-> "pl", text |-> ""]>> ELSE reply
    /\ currentLang = "pl"
    /\ newLang = ""
    /\ SettingsIdle
    /\ RepliesIdle
    /\ last = "mount"

NextModal ==
    \/ NewLangChange
    \/ HandleAddLanguage
    \/ HandleRemoveLanguage
    \/ SelectTab
    \/ TextChange

SpecModal == InitModal /\ [][NextModal]_vars

(***************************************************************************)
(* SettingsPage: the WABA settings form.                                   *)
(***************************************************************************)
MaxSettingsCalls == 2   \* updateWabaSettings() and triggerWabaSync() calls issued

\* String.prototype.trim(): drops the white space at both ends
RECURSIVE TrimStart(_)
TrimStart(s) ==
    IF Len(s) > 0 /\ SubSeq(s, 1, 1) = " "
    THEN TrimStart(SubSeq(s, 2, Len(s)))
    ELSE s

RECURSIVE TrimEnd(_)
TrimEnd(s) ==
    IF Len(s) > 0 /\ SubSeq(s, Len(s), Len(s)) = " "
    THEN TrimEnd(SubSeq(s, 1, Len(s) - 1))
    ELSE s

Trim(s) == TrimEnd(TrimStart(s))

\* the inputs of the form, by their name attribute
SettingsFields ==
    {"waba_id", "name", "access_token", "app_secret", "verify_token",
     "graph_api_version"}

SecretFields == {"access_token", "app_secret", "verify_token"}

\* what the user types into an input
TypedValues(name) ==
    CASE name = "waba_id" -> {"", " ", " 7 "}
      [] name = "name" -> {"Golden Cars", " Shop "}
      [] name = "graph_api_version" -> {"v21.0", "v22.0"}
      [] name = "access_token" -> {"", " ", " t "}
      [] name = "app_secret" -> {"", " "}
      [] OTHER -> {"", " v "}

\* what getWabaSettings() and updateWabaSettings() resolve with
ServerSettings ==
    {NoSettings,
     [present |-> TRUE, waba_id |-> "7", name |-> "", graph_api_version |-> ""]}

\* a || b on strings
OrElse(a, b) == IF a = "" THEN b ELSE a

\* loadAccountData up to its await
LoadAccountData ==
    /\ settingsLoading' = TRUE
    /\ error' = Null
    /\ accountRequest' = TRUE

\* loadAccountData after getWabaSettings() resolved
LoadAccountResolved ==
    /\ accountRequest
    /\ \E settings \in ServerSettings :
        IF settings.present
        THEN /\ account' = settings
             /\ formData' =
                    [waba_id |-> OrElse(settings.waba_id, ""),
                     name |-> OrElse(settings.name, "Golden Cars"),
                     access_token |-> "",
                     app_secret |-> "",
                     verify_token |-> "",
                     graph_api_version |->
                         OrElse(settings.graph_api_version, "v21.0")]
        ELSE UNCHANGED <<account, formData>>
    /\ settingsLoading' = FALSE
    /\ accountRequest' = FALSE
    /\ last' = "loadAccountOk"
    /\ UNCHANGED <<error, success, isSaving, isSyncing, updateRequests,
                   syncRequest, reloadTimers, successTimers, submits, syncs,
                   outsideSettings>>

\* loadAccountData after getWabaSettings() rejected
LoadAccountRejected ==
    /\ accountRequest
    /\ \E status \in {404, 500} :
        error' = IF status # 404 THEN "Failed to load account data" ELSE error
    /\ settingsLoading' = FALSE
    /\ accountRequest' = FALSE
    /\ last' = "loadAccountFailed"
    /\ UNCHANGED <<account, success, isSaving, isSyncing, formData,
                   updateRequests, syncRequest, reloadTimers, successTimers,
                   submits, syncs, outsideSettings>>

\* handleInputChange: onChange of one input of the form
HandleInputChange ==
    /\ ~settingsLoading
    /\ \E name \in SettingsFields :
        \E value \in TypedValues(name) \ {formData[name]} :
            formData' = [formData EXCEPT ![name] = value]
    /\ success' = FALSE
    /\ last' = "inputChange"
    /\ UNCHANGED <<account, settingsLoading, error, isSaving, isSyncing,
                   accountRequest, updateRequests, syncRequest, reloadTimers,
                   successTimers, submits, syncs, outsideSettings>>

\* the body of updateWabaSettings(): a secret only if it is not blank
SettingsPayload(fd) ==
    [waba_id |-> Trim(fd.waba_id),
     name |-> Trim(fd.name),
     graph_api_version |-> fd.graph_api_version,
     access_token |->
         IF Trim(fd.access_token) # "" THEN Trim(fd.access_token)
         ELSE Undefined,
     app_secret |->
         IF Trim(fd.app_secret) # "" THEN Trim(fd.app_secret) ELSE Undefined,
     verify_token |->
         IF Trim(fd.verify_token) # "" THEN Trim(fd.verify_token)
         ELSE Undefined]

\* handleSubmit up to its await.  The submit button is disabled while
\* isSaving, and both required inputs must be filled for the browser to
\* dispatch the submit event.
HandleSubmit ==
    /\ ~settingsLoading
    /\ ~isSaving
    /\ formData.waba_id # ""
    /\ formData.name # ""
    /\ IF Trim(formData.waba_id) = ""
       THEN /\ error' = "WABA ID is required"
            /\ UNCHANGED <<isSaving, success, updateRequests, submits>>
       ELSE /\ submits + syncs < MaxSettingsCalls
            /\ isSaving' = TRUE
            /\ error' = Null
            /\ success' = FALSE
            /\ updateRequests' = Append(updateRequests, SettingsPayload(formData))
            /\ submits' = submits + 1
    /\ last' = "submit"
    /\ UNCHANGED <<account, settingsLoading, isSyncing, formData,
                   accountRequest, syncRequest, reloadTimers, successTimers,
                   syncs, outsideSettings>>

\* a resolve that puts the whole form back to its first values
UpdateSettingsResolvedResets ==
    /\ updateRequests # << >>
    /\ \E response \in ServerSettings \ {NoSettings} : account' = response
    /\ success' = TRUE
    /\ formData' = InitialFormData
    /\ successTimers' = successTimers + 1
    /\ isSaving' = FALSE
    /\ updateRequests' = Tail(updateRequests)
    /\ last' = "updateOk"
    /\ UNCHANGED <<settingsLoading, error, isSyncing, accountRequest,
                   syncRequest, reloadTimers, submits, syncs, outsideSettings>>

\* handleSubmit after updateWabaSettings() resolved
UpdateSettingsResolved ==
    /\ updateRequests # << >>
    /\ \E response \in ServerSettings \ {NoSettings} : account' = response
    /\ success' = TRUE
    /\ formData' = [formData EXCEPT !.access_token = "",
                                    !.app_secret = "",
                                    !.verify_token = ""]
    /\ successTimers' = successTimers + 1
    /\ isSaving' = FALSE
    /\ updateRequests' = Tail(updateRequests)
    /\ last' = "updateOk"
    /\ UNCHANGED <<settingsLoading, error, isSyncing, accountRequest,
                   syncRequest, reloadTimers, submits, syncs, outsideSettings>>

\* handleSubmit after updateWabaSettings() rejected
UpdateSettingsRejected ==
    /\ updateRequests # << >>
    /\ error' = "Failed to save settings"
    /\ isSaving' = FALSE
    /\ updateRequests' = Tail(updateRequests)
    /\ last' = "updateFailed"
    /\ UNCHANGED <<account, settingsLoading, success, isSyncing, formData,
                   accountRequest, syncRequest, reloadTimers, successTimers,
                   submits, syncs, outsideSettings>>

\* setTimeout(() => setSuccess(false), 3000) fires
SuccessTimeout ==
    /\ successTimers > 0
    /\ success' = FALSE
    /\ successTimers' = successTimers - 1
    /\ last' = "successTimeout"
    /\ UNCHANGED <<account, settingsLoading, error, isSaving, isSyncing,
                   formData, accountRequest, updateRequests, syncRequest,
                   reloadTimers, submits, syncs, outsideSettings>>

\* handleSync up to its await; the button is disabled while isSyncing
HandleSync ==
    /\ ~settingsLoading
    /\ ~isSyncing
    /\ submits + syncs < MaxSettingsCalls
    /\ isSyncing' = TRUE
    /\ error' = Null
    /\ success' = FALSE
    /\ syncRequest' = TRUE
    /\ syncs' = syncs + 1
    /\ last' = "sync"
    /\ UNCHANGED <<account, settingsLoading, isSaving, formData,
                   accountRequest, updateRequests, reloadTimers,
                   successTimers, submits, outsideSettings>>

\* handleSync after triggerWabaSync() resolved
SyncResolved ==
    /\ syncRequest
    /\ success' = TRUE
    /\ reloadTimers' = reloadTimers + 1
    /\ successTimers' = successTimers + 1
    /\ isSyncing' = FALSE
    /\ syncRequest' = FALSE
    /\ last' = "syncOk"
    /\ UNCHANGED <<account, settingsLoading, error, isSaving, formData,
                   accountRequest, updateRequests, submits, syncs,
                   outsideSettings>>

\* handleSync after triggerWabaSync() rejected
SyncRejected ==
    /\ syncRequest
    /\ error' = "Failed to sync"
    /\ isSyncing' = FALSE
    /\ syncRequest' = FALSE
    /\ last' = "syncFailed"
    /\ UNCHANGED <<account, settingsLoading, success, isSaving, formData,
                   accountRequest, updateRequests, reloadTimers,
                   successTimers, submits, syncs, outsideSettings>>

\* setTimeout(() => loadAccountData(), 2000) fires
ReloadTimeout ==
    /\ reloadTimers > 0
    /\ ~accountRequest
    /\ LoadAccountData
    /\ reloadTimers' = reloadTimers - 1
    /\ last' = "reloadTimeout"
    /\ UNCHANGED <<account, success, isSaving, isSyncing, formData,
                   updateRequests, syncRequest, successTimers, submits, syncs,
                   outsideSettings>>

\* SettingsPage mounted: useEffect(() => { loadAccountData() }, []) has run
InitSettings ==
    /\ template = [components |-> << >>, default_variable_mapping |-> AbsentMapping]
    /\ NothingMounted
    /\ NotificationsIdle
    /\ MapperIdle
    /\ CampaignIdle
    /\ ModalIdle
    /\ account = NoSettings
    /\ settingsLoading = TRUE
    /\ error = Null
    /\ success = FALSE
    /\ isSaving = FALSE
    /\ isSyncing = FALSE
    /\ formData = InitialFormData
    /\ accountRequest = TRUE
    /\ updateRequests = << >>
    /\ syncRequest = FALSE
    /\ reloadTimers = 0
    /\ successTimers = 0
    /\ submits = 0
    /\ syncs = 0
    /\ RepliesIdle
    /\ last = "mount"

NextSettings ==
    \/ LoadAccountResolved
    \/ LoadAccountRejected
    \/ HandleInputChange
    \/ HandleSubmit
    \/ UpdateSettingsResolved
    \/ UpdateSettingsRejected
    \/ SuccessTimeout
    \/ HandleSync
    \/ SyncResolved
    \/ SyncRejected
    \/ ReloadTimeout

SpecSettings == InitSettings /\ [][NextSettings]_vars

(***************************************************************************)
(* QuickRepliesPage: the searchable list of quick replies.                 *)
(***************************************************************************)
MaxListRequests == 3   \* getQuickReplies() calls issued

\* what the user types into the search input
Queries == {"", "a", "b"}

\* searchQuery || undefined: the argument of getQuickReplies()
QueryParam(q) == IF q = "" THEN Undefined ELSE q

\* the array the server answers a list request with, named by the query it
\* answers
RepliesFor(param) == [for |-> param]

\* onChange of the search input: setSearchQuery; loadQuickReplies is
\* re-created, so the effect clears its timer and sets a new one
SearchChange ==
    /\ \E q \in Queries \ {searchQuery} : searchQuery' = q
    /\ debounce' = TRUE
    /\ last' = "searchChange"
    /\ UNCHANGED <<quickReplies, loading, listRequests, listIssued, listErrors,
                   outsideReplies>>

\* the debounce timer fires: loadQuickReplies up to its await
DebounceFires ==
    /\ debounce
    /\ listIssued < MaxListRequests
    /\ debounce' = FALSE
    /\ loading' = TRUE
    /\ listRequests' = Append(listRequests, QueryParam(searchQuery))
    /\ listIssued' = listIssued + 1
    /\ last' = "debounce"
    /\ UNCHANGED <<quickReplies, searchQuery, listErrors, outsideReplies>>

\* loadQuickReplies after one getQuickReplies() resolved; the responses
\* arrive in any order
ListResolved ==
    /\ \E i \in 1..Len(listRequests) :
        /\ quickReplies' = RepliesFor(listRequests[i])
        /\ listRequests' = RemoveAt(listRequests, i)
    /\ loading' = FALSE
    /\ last' = "listOk"
    /\ UNCHANGED <<searchQuery, debounce, listIssued, listErrors,
                   outsideReplies>>

\* loadQuickReplies after one getQuickReplies() rejected
ListRejected ==
    /\ \E i \in 1..Len(listRequests) :
        listRequests' = RemoveAt(listRequests, i)
    /\ listErrors' = listErrors + 1
    /\ loading' = FALSE
    /\ last' = "listFailed"
    /\ UNCHANGED <<quickReplies, searchQuery, debounce, listIssued,
                   outsideReplies>>

\* QuickRepliesPage mounted: the effect has set its first timer
InitReplies ==
    /\ template = [components |-> << >>, default_variable_mapping |-> AbsentMapping]
    /\ NothingMounted
    /\ NotificationsIdle
    /\ MapperIdle
    /\ CampaignIdle
    /\ ModalIdle
    /\ SettingsIdle
    /\ quickReplies = NoReplies
    /\ loading = TRUE
    /\ searchQuery = ""
    /\ debounce = TRUE
    /\ listRequests = << >>
    /\ listIssued = 0
    /\ listErrors = 0
    /\ last = "mount"

NextReplies ==
    \/ SearchChange
    \/ DebounceFires
    \/ ListResolved
    \/ ListRejected

SpecReplies == InitReplies /\ [][NextReplies]_vars

(***************************************************************************)
(* Properties.                                                             *)
(***************************************************************************)
Elements(seq) == {seq[i] : i \in 1..Len(seq)}

NoDuplicates(seq) == \A i, j \in 1..Len(seq) : i # j => seq[i] # seq[j]

NumericallyAscending(seq) ==
    \A i, j \in 1..Len(seq) : i < j => parseInt(seq[i]) <= parseInt(seq[j])

\* the digit sequences d of every occurrence of "{{" d "}}" in s, d being
\* one or more digits
PlaceholderDigits(s) ==
    UNION {{SubSeq(s, i + 2, j) :
                j \in {e \in (i + 2)..Len(s) :
                        /\ HasAt(s, e + 1, "}}")
                        /\ \A k \in (i + 2)..e : IsDigit(CharAt(s, k))}}
            : i \in {b \in 1..Len(s) : HasAt(s, b, "{{")}}

TextOrEmpty(c) == IF c.text = Undefined THEN "" ELSE c.text

\* the text of the BODY component the editor looks at
FirstBodyText(t) ==
    IF FindBody(t.components) = 0 THEN ""
    ELSE TextOrEmpty(t.components[FindBody(t.components)])

\* the placeholders of every BODY component
AllBodyDigits(t) ==
    UNION {PlaceholderDigits(TextOrEmpty(t.components[i])) :
            i \in BodyIndexes(t.components)}

WellOrdered(seq) == NoDuplicates(seq) /\ NumericallyAscending(seq)

\* C1: each extractor returns the digit sequences of all {{<digits>}}
\* placeholders of the BODY text, without duplicates, in ascending numeric
\* order; a body holding exactly the indices 1, 2 and 3 yields <<"1","2","3">>.
C1_ExtractorResult ==
    /\ "extractVariables" \in calls =>
          /\ Elements(extracted) = PlaceholderDigits(FirstBodyText(template))
          /\ WellOrdered(extracted)
          /\ Elements(extracted) = {"1", "2", "3"} => extracted = <<"1", "2", "3">>
    /\ "extractTemplateVariables" \in calls =>
          /\ Elements(variables) = AllBodyDigits(template)
          /\ WellOrdered(variables)
          /\ Elements(variables) = {"1", "2", "3"} => variables = <<"1", "2", "3">>

C1_Witness ==
    /\ calls = {"extractVariables", "extractTemplateVariables"}
    /\ FirstBodyText(template) = "{{3}}{{1}}{{1}}{{2}}"
    /\ extracted = <<"1", "2", "3">>
    /\ variables = <<"1", "2", "3">>

\* C2: in every reachable state no key of the scratch mapping maps to the
\* empty string (selecting the unset option removes the key).
C2_ScratchIsSparse == \A k \in DOMAIN mapping : mapping[k] # ""

HasNoMappedVariable(m) == \A k \in DOMAIN m : m[k] = ""

\* C3: a save request made with a scratch mapping that has no mapped variable
\* carries the absence marker, never a container.
C3_EmptySaveIsAbsent ==
    \A i \in 1..Len(saveRequests) :
        HasNoMappedVariable(saveRequests[i].entries) => ~saveRequests[i].present

Delivered == last \in {"toast", "suppressed"}

\* C4: a delivery is suppressed if and only if the path begins with /contacts
\* and the active contact id equals the event's contact id.
C4_SuppressIffContactOpen ==
    Delivered =>
        (last = "suppressed" <=>
            /\ StartsWith(pathname, "/contacts")
            /\ ActiveContactId(searchParams) = event)

\* C5: an event whose contact id is missing (undefined or null) always
\* produces a toast.
C5_MissingIdAlwaysNotifies ==
    (Delivered /\ event \in {Undefined, Null}) => last = "toast"

\* a step in which a save request fails
RejectStep == last' = "saveFailed" /\ Len(saveRequests') < Len(saveRequests)

\* C6: after a failed save the editor is still editing with the
\* scratch mapping that was sent, the template is unchanged, onUpdate is not
\* called and no request is issued.
C6_FailedSaveKeepsSentScratch ==
    [][RejectStep =>
        /\ isEditing'
        /\ \E i \in 1..Len(saveRequests) :
              /\ saveRequests' = RemoveAt(saveRequests, i)
              /\ mapping' = saveRequests[i].entries
        /\ template' = template
        /\ onUpdateCalls' = onUpdateCalls
        /\ savesIssued' = savesIssued]_vars

\* What the failure handler does keep (the rest of C6): a failed save leaves
\* the editor in Editing with the scratch mapping it had just before the
\* failure, the template and the stored mapping unchanged, onUpdate not called
\* and no request issued; requests are issued by the Save button only.
FailedSaveKeepsScratch ==
    [][/\ RejectStep =>
            /\ isEditing /\ isEditing' /\ ~saving'
            /\ mapping' = mapping
            /\ template' = template
            /\ serverMapping' = serverMapping
            /\ onUpdateCalls' = onUpdateCalls
            /\ savesIssued' = savesIssued
            /\ saveRequests' = << >>
       /\ savesIssued' # savesIssued => (SaveEnabled /\ last' = "save")]_vars

\* C7: after a failed save an error message is rendered.
C7_FailedSaveShowsError == last = "saveFailed" => "errorMessage" \in Rendered

\* C8: at most one save request is in flight, and Save is not enabled while
\* one is.
C8_OneSaveInFlight ==
    /\ Len(saveRequests) <= 1
    /\ saveRequests # << >> => (saving /\ ~SaveEnabled)
    /\ saving => Len(saveRequests) = 1

C8_Witness == Len(saveRequests) = 1 /\ savesIssued = 2 /\ saving

\* C9: Cancel from Editing leads to Viewing with the scratch mapping equal to
\* the persisted mapping (empty if none); it issues no request and leaves the
\* persisted mapping unchanged.
C9_CancelDiscards ==
    /\ [](last = "cancel" =>
            /\ ~isEditing
            /\ mapping = OrEmpty(template.default_variable_mapping)
            /\ saveRequests = << >>)
    /\ [][(isEditing /\ last' = "cancel") =>
            /\ template' = template
            /\ serverMapping' = serverMapping
            /\ savesIssued' = savesIssued
            /\ saveRequests' = saveRequests]_vars

C9_Witness ==
    /\ last = "cancel"
    /\ ~isEditing
    /\ template.default_variable_mapping = PresentMapping(Obj1("1", "name"))
    /\ mapping = Obj1("1", "name")
    /\ savesIssued = 0

\* C10: the template held by the page and the stored mapping change only when
\* a save request succeeds, and requests are issued only by Save: opening the
\* editor, changing a selection, cancelling and loading the catalog do neither.
C10_OnlySaveChangesTemplate ==
    [][/\ (template' # template \/ serverMapping' # serverMapping) =>
            (last' = "saveOk" /\ Len(saveRequests') < Len(saveRequests))
       /\ (savesIssued' # savesIssued \/ Len(saveRequests') > Len(saveRequests)) =>
            last' = "save"
       /\ last' \in {"edit", "select", "cancel", "fieldsLoaded", "fieldsFailed"} =>
            /\ template' = template
            /\ serverMapping' = serverMapping
            /\ saveRequests' = saveRequests
            /\ savesIssued' = savesIssued]_vars

C10_Witness ==
    /\ last = "cancel"
    /\ availableFields # << >>
    /\ savesIssued = 1
    /\ onUpdateCalls = 0
    /\ template.default_variable_mapping = PresentMapping(Obj1("1", "name"))

(***************************************************************************)
(* C11: whenever the editor goes from Viewing to Editing the scratch       *)
(* mapping is the persisted mapping of the template, or the empty mapping  *)
(* when the template has none; in every Viewing state the local mapping    *)
(* is the persisted one.                                                   *)
(***************************************************************************)
C11_ViewingShowsPersisted ==
    /\ [](~isEditing => mapping = OrEmpty(template.default_variable_mapping))
    /\ [][(~isEditing /\ isEditing') =>
            mapping' = OrEmpty(template'.default_variable_mapping)]_vars

\* the editor is opened again after a save that changed the persisted mapping
C11_Witness ==
    /\ last = "edit"
    /\ isEditing
    /\ onUpdateCalls = 1
    /\ mapping = Obj1("2", "custom_data.city")
    /\ template.default_variable_mapping = PresentMapping(Obj1("2", "custom_data.city"))

(***************************************************************************)
(* C12: a save sends the scratch mapping as it is when Save is triggered;  *)
(* when the request succeeds the editor returns to Viewing, onUpdate is    *)
(* called exactly once with the template the server returned, and the      *)
(* mapping then shown is that template's mapping.                          *)
(***************************************************************************)
SaveStep == savesIssued' # savesIssued

ResolveStep == onUpdateCalls' # onUpdateCalls \/ (last' = "saveOk" /\ vars' # vars)

C12_SaveSendsScratch ==
    [][/\ SaveStep =>
            /\ Len(saveRequests') = Len(saveRequests) + 1
            /\ OrEmpty(PayloadOf(saveRequests'[Len(saveRequests')])) = mapping
       /\ ResolveStep =>
            /\ Len(saveRequests') = Len(saveRequests) - 1
            /\ onUpdateCalls' = onUpdateCalls + 1
            /\ ~isEditing'
            /\ template'.default_variable_mapping = OverTheWire(serverMapping')
            /\ mapping' = OrEmpty(template'.default_variable_mapping)]_vars

\* a save of a scratch mapping that differs from the persisted one succeeded
C12_Witness ==
    /\ last = "saveOk"
    /\ ~isEditing
    /\ onUpdateCalls = 1
    /\ mapping = Obj1("2", "name")
    /\ serverMapping = PresentMapping(Obj1("2", "name"))
(***************************************************************************)
(* C13: round trip.  With a server that stores what it receives, a mapping *)
(* that was saved and the template then loaded again is shown, and held by *)
(* the loaded template, key by key and value by value as it was saved.     *)
(***************************************************************************)
C13_RoundTrip ==
    (last = "reload" /\ onUpdateCalls > 0) =>
        /\ mapping = lastSaved
        /\ OrEmpty(template.default_variable_mapping) = lastSaved
        /\ DOMAIN mapping = DOMAIN lastSaved
        /\ \A k \in DOMAIN lastSaved : mapping[k] = lastSaved[k]

\* every extracted variable was mapped to a field, saved, and the template
\* loaded again
C13_Witness ==
    /\ last = "reload"
    /\ onUpdateCalls = 1
    /\ extracted = <<"1", "2">>
    /\ lastSaved = Obj2("1", "custom_data.city", "2", "name")
    /\ mapping = lastSaved
KeysAreExtracted(m) == DOMAIN m \subseteq Elements(extractVariables(template))

C15_SentKeysAreExtracted ==
    KeysAreExtracted(OrEmpty(template.default_variable_mapping)) =>
        /\ KeysAreExtracted(mapping)
        /\ \A i \in 1..Len(saveRequests) :
              KeysAreExtracted(OrEmpty(PayloadOf(saveRequests[i])))

\* a second save, of both variables, is in flight after a first one succeeded
C15_Witness ==
    /\ Len(saveRequests) = 1
    /\ savesIssued = 2
    /\ onUpdateCalls = 1
    /\ saveRequests[1].present
    /\ DOMAIN saveRequests[1].entries = {"1", "2"}
(***************************************************************************)
(* C16: the extractor considers at most one BODY component: whatever the   *)
(* component list, every index of a result comes from one and the same     *)
(* BODY component, and the result is empty when there is none.             *)
(***************************************************************************)
OneBodyContributes(result, t) ==
    IF BodyIndexes(t.components) = {} THEN result = << >>
    ELSE \E i \in BodyIndexes(t.components) :
            Elements(result) \subseteq PlaceholderDigits(TextOrEmpty(t.components[i]))

C16_AtMostOneBody ==
    /\ "extractVariables" \in calls => OneBodyContributes(extracted, template)
    /\ "extractTemplateVariables" \in calls => OneBodyContributes(variables, template)

(***************************************************************************)
(* C18: the indices are returned as the digit strings written in the text  *)
(* and ordered by integer value: "9" stands before "10", and "01" and "1"  *)
(* are two elements of the result when both are written.                   *)
(***************************************************************************)
IndexOf(seq, x) == CHOOSE i \in 1..Len(seq) : seq[i] = x

KeepsDigitStrings(result, written) ==
    /\ Elements(result) = written
    /\ \A i, j \in 1..Len(result) : i < j => parseInt(result[i]) <= parseInt(result[j])
    /\ {"9", "10"} \subseteq written => IndexOf(result, "9") < IndexOf(result, "10")
    /\ {"2", "10"} \subseteq written => IndexOf(result, "2") < IndexOf(result, "10")
    /\ {"01", "1"} \subseteq written =>
            /\ {"01", "1"} \subseteq Elements(result)
            /\ IndexOf(result, "01") # IndexOf(result, "1")

C18_NumericOrderOfDigitStrings ==
    /\ "extractVariables" \in calls =>
            KeepsDigitStrings(extracted, PlaceholderDigits(FirstBodyText(template)))
    /\ "extractTemplateVariables" \in calls =>
            KeepsDigitStrings(variables, AllBodyDigits(template))

C18_Witness ==
    /\ calls = {"extractVariables", "extractTemplateVariables"}
    /\ FirstBodyText(template) = "{{10}}{{9}}{{1}}{{01}}"
    /\ extracted = <<"1", "01", "9", "10">>
    /\ variables = <<"1", "01", "9", "10">>

(***************************************************************************)
(* C19: malformed placeholders contribute nothing: every index returned is *)
(* a non-empty string of digits written in the text between "{{" and "}}", *)
(* so an opening "{{" with no digits, with other content or with no        *)
(* closing "}}" adds nothing; and every well-formed placeholder of the     *)
(* same text is returned.                                                  *)
(***************************************************************************)
AllDigits(d) == Len(d) > 0 /\ \A k \in 1..Len(d) : IsDigit(CharAt(d, k))

OnlyWellFormed(result, text) ==
    /\ \A n \in 1..Len(result) :
          /\ AllDigits(result[n])
          /\ StringIncludes(text, "{{" \o result[n] \o "}}")
    /\ \A d \in {"1", "2", "3", "9", "10", "01"} :
          StringIncludes(text, "{{" \o d \o "}}") => d \in Elements(result)

C19_MalformedIgnored ==
    "extractVariables" \in calls => OnlyWellFormed(extracted, FirstBodyText(template))

C19_Witness ==
    /\ "extractVariables" \in calls
    /\ FirstBodyText(template) = "{{1x}}{{2}}"
    /\ extracted = <<"2">>
(***************************************************************************)
(* C17: a template with no BODY component, or whose BODY text is missing,  *)
(* empty or without placeholder, extracts to the empty sequence, and the   *)
(* editor then shows only the no-variables notice: neither Edit nor Save   *)
(* can be reached, whatever the persisted mapping is.                      *)
(***************************************************************************)
C17_NoVariablesNotice ==
    PlaceholderDigits(FirstBodyText(template)) = {} =>
        /\ extractVariables(template) = << >>
        /\ extracted = << >>
        /\ Rendered = {"noVariablesNotice"}
        /\ ~EditEnabled
        /\ ~SaveEnabled
        /\ ~isEditing
        /\ saveRequests = << >>
        /\ savesIssued = 0

\* a template without BODY whose persisted mapping has a key, loaded again
\* after its catalog request failed
C17_Witness ==
    /\ template.components = <<[type |-> "HEADER", text |-> "{{3}}"]>>
    /\ template.default_variable_mapping = PresentMapping(Obj1("3", "name"))
    /\ last = "reload"
    /\ consoleErrors = 1
    /\ Rendered = {"noVariablesNotice"}

(***************************************************************************)
(* C20: each delivery of a new-message event is decided on its own, from   *)
(* the navigation context and the event only, and produces at most one     *)
(* toast: a delivery that repeats the event just notified produces one     *)
(* more toast, and a suppressed delivery leaves no trace in the decision   *)
(* of the next.                                                            *)
(***************************************************************************)
DeliveryStep == last' \in {"toast", "suppressed"} /\ vars' # vars

C20_DeliveriesAreIndependent ==
    [][DeliveryStep =>
        /\ toasts' = toasts + (IF last' = "toast" THEN 1 ELSE 0)
        /\ last' = "suppressed" <=> IsChatOpen(pathname, searchParams, event')
        /\ (last = "toast" /\ event' = event) =>
                (last' = "toast" /\ toasts' = toasts + 1)]_vars

\* three deliveries gave three toasts, the last one for contact 42 while the
\* chat of contact 7 is open
C20_Witness ==
    /\ last = "toast"
    /\ toasts = 3
    /\ event = "42"
    /\ pathname = "/contacts"
    /\ ActiveContactId(searchParams) = "7"
(***************************************************************************)
(* C21: a failed available-fields fetch is only logged: the catalog stays  *)
(* empty and nothing else of the editor changes; with an empty catalog the *)
(* editor can still be opened, every selector offers only the unset        *)
(* option, and Cancel and Save are enabled when no save is in flight.      *)
(***************************************************************************)
FieldsFailedStep == last' = "fieldsFailed" /\ vars' # vars

C21_CatalogFailureOnlyLogged ==
    /\ [](availableFields = << >> =>
            /\ OptionValues(availableFields) = {""}
            /\ (Len(extracted) > 0 /\ ~isEditing) => EditEnabled
            /\ (isEditing /\ ~saving) => (CancelEnabled /\ SaveEnabled))
    /\ [][FieldsFailedStep =>
            /\ consoleErrors' = consoleErrors + 1
            /\ availableFields' = << >>
            /\ UNCHANGED <<template, isEditing, mapping, saving, saveRequests>>]_vars
    /\ [][availableFields' # availableFields =>
            last' \in {"fieldsLoaded", "reload"}]_vars

\* the catalog request of this editor failed, the editor was opened and its
\* first save is in flight
C21_Witness ==
    /\ availableFields = << >>
    /\ ~fieldsRequest
    /\ consoleErrors = 1
    /\ last = "save"
    /\ savesIssued = 1
    /\ isEditing
(***************************************************************************)
(* C23: the two extractors return the same sequence for every template.    *)
(***************************************************************************)
C23_ExtractorsAgree ==
    calls = {"extractVariables", "extractTemplateVariables"} => extracted = variables

(***************************************************************************)
(* C24: while a save is in flight nothing changes the scratch mapping, and *)
(* when a save succeeds the scratch mapping the editor leaves behind is    *)
(* the mapping that was saved: no selection is lost.                       *)
(***************************************************************************)
C24_NoSelectionLost ==
    [][/\ (saving /\ saving') => mapping' = mapping
       /\ (last' = "saveOk" /\ vars' # vars) => lastSaved' = mapping]_vars

(***************************************************************************)
(* C25: the saving flag is true exactly while a save request is            *)
(* outstanding: set by Save, cleared when the request succeeds or fails,   *)
(* and by nothing else; while it is set Save and Cancel are disabled and   *)
(* the editor stays in Editing.                                            *)
(***************************************************************************)
C25_SavingWhileOutstanding ==
    /\ [](saving <=> saveRequests # << >>)
    /\ [](saving => (isEditing /\ ~SaveEnabled /\ ~CancelEnabled))
    /\ [][(~saving /\ saving') => (last' = "save" /\ savesIssued' = savesIssued + 1)]_vars
    /\ [][(saving /\ ~saving') =>
            /\ last' \in {"saveOk", "saveFailed"}
            /\ Len(saveRequests') = Len(saveRequests) - 1]_vars
    /\ [][(saving /\ last' \in {"saveOk", "saveFailed"} /\ vars' # vars) => ~saving']_vars

\* a save failed and the flag is clear again, the editor still open
C25_Witness ==
    /\ last = "saveFailed"
    /\ ~saving
    /\ isEditing
    /\ saveRequests = << >>
    /\ savesIssued = 2

(***************************************************************************)
(* C27: the active contact id is the id parameter when it is present and   *)
(* not empty, otherwise the contact_id parameter, otherwise none; when     *)
(* both are present and differ only an event for the id parameter is       *)
(* suppressed.                                                             *)
(***************************************************************************)
IsPresent(v) == v # Null /\ v # ""

C27_IdBeforeContactId ==
    /\ IsPresent(searchParams.id) =>
            ActiveContactId(searchParams) = searchParams.id
    /\ (~IsPresent(searchParams.id) /\ IsPresent(searchParams.contact_id)) =>
            ActiveContactId(searchParams) = searchParams.contact_id
    /\ (~IsPresent(searchParams.id) /\ ~IsPresent(searchParams.contact_id)) =>
            ~IsPresent(ActiveContactId(searchParams))
    /\ (/\ Delivered
        /\ IsPresent(searchParams.id)
        /\ IsPresent(searchParams.contact_id)
        /\ searchParams.id # searchParams.contact_id) =>
            /\ last = "suppressed" => event = searchParams.id
            /\ event = searchParams.contact_id => last = "toast"

\* both parameters present and different: the event for the id parameter
\* was suppressed
C27_Witness ==
    /\ last = "suppressed"
    /\ searchParams = [id |-> "42", contact_id |-> "7"]
    /\ event = "42"
    /\ pathname = "/contacts"
(***************************************************************************)
(* C26: handleMappingChange(variable, field) reports a mapping that differs *)
(* from variableMapping only at that variable, which is set to field when  *)
(* field is not empty and removed when it is; variableMapping itself is    *)
(* not modified, and a mapping without empty values yields one without.    *)
(***************************************************************************)
MapperChangeStep == last' = "mapperChange" /\ vars' # vars

NoEmptyValue(m) == \A k \in DOMAIN m : m[k] # ""

C26_ChangeTouchesOneKey ==
    [][MapperChangeStep =>
        LET v == changed'.variable
            f == changed'.field
        IN  /\ variableMapping' = variableMapping
            /\ DOMAIN newMapping' \ {v} = DOMAIN variableMapping \ {v}
            /\ \A k \in DOMAIN variableMapping \ {v} : newMapping'[k] = variableMapping[k]
            /\ f # "" => (v \in DOMAIN newMapping' /\ newMapping'[v] = f)
            /\ f = "" => v \notin DOMAIN newMapping'
            /\ NoEmptyValue(variableMapping) => NoEmptyValue(newMapping')]_vars

\* the unset option chosen for variable 2 of a mapping of two variables
C26_Witness ==
    /\ last = "mapperChange"
    /\ changed = [variable |-> "2", field |-> ""]
    /\ variableMapping = Obj2("1", "name", "2", "custom_data.city")
    /\ newMapping = Obj1("1", "name")
(***************************************************************************)
(* C30: for every status and contact count the campaign view offers at     *)
(* most one of Start, Pause and Resume: Start only in DRAFT or SCHEDULED   *)
(* with total_contacts > 0, Pause only in RUNNING, Resume only in PAUSED;  *)
(* Edit, Schedule and Add contacts only in DRAFT; no button in COMPLETED   *)
(* or FAILED; and a handler of a button runs only while it is offered.     *)
(***************************************************************************)
C30_ButtonsByStatus ==
    /\ [](/\ Cardinality(CampaignButtons \cap {"start", "pause", "resume"}) <= 1
          /\ "start" \in CampaignButtons =>
                /\ campaign.status \in {"DRAFT", "SCHEDULED"}
                /\ campaign.total_contacts > 0
          /\ "pause" \in CampaignButtons => campaign.status = "RUNNING"
          /\ "resume" \in CampaignButtons => campaign.status = "PAUSED"
          /\ CampaignButtons \cap {"edit", "schedule", "addContacts"} # {} =>
                campaign.status = "DRAFT"
          /\ campaign.status \in {"COMPLETED", "FAILED"} => CampaignButtons = {})
    /\ [][(last' \in {"start", "pause", "resume", "edit", "schedule", "addContacts"}
            /\ vars' # vars) => last' \in CampaignButtons]_vars

\* Start pressed on a scheduled campaign with contacts, the only run control
\* offered
C30_Witness ==
    /\ last = "start"
    /\ campaign = [status |-> "SCHEDULED", total_contacts |-> 1]
    /\ CampaignButtons = {"start"}
(***************************************************************************)
(* C29: in the quick reply modal the selected language is always a key of  *)
(* the content map, a text edit never adds a key, and the content map      *)
(* never becomes empty.                                                    *)
(***************************************************************************)
C29_CurrentLangIsKey ==
    /\ [](HasKey(content, currentLang) /\ Len(content) > 0)
    /\ [][(last' = "text" /\ vars' # vars) => ObjectKeys(content') = ObjectKeys(content)]_vars

\* a string with a character other than white space
NonBlank(s) == \E i \in 1..Len(s) : SubSeq(s, i, i) # " "

SubmitStep == last' = "submit" /\ vars' # vars
UpdateOkStep == last' = "updateOk" /\ vars' # vars

\* the payload handleSubmit has just queued
QueuedPayload == updateRequests'[Len(updateRequests')]

\* C22: on the settings page a save that succeeded leaves the three secret
\* fields empty and waba_id, name and graph_api_version as they were; the
\* payload of a save carries a secret (trimmed) exactly when its field holds a
\* character other than white space, and submitting changes no field.
C22_SecretsClearedOthersKept ==
    [][/\ UpdateOkStep =>
            /\ \A f \in SecretFields : formData'[f] = ""
            /\ \A f \in SettingsFields \ SecretFields :
                  formData'[f] = formData[f]
       /\ SubmitStep =>
            /\ formData' = formData
            /\ Len(updateRequests') > Len(updateRequests) =>
                  \A f \in SecretFields :
                     /\ QueuedPayload[f] # Undefined <=> NonBlank(formData[f])
                     /\ QueuedPayload[f] # Undefined =>
                           /\ QueuedPayload[f] # ""
                           /\ SubSeq(QueuedPayload[f], 1, 1) # " "
                           /\ formData[f] \in
                                 {QueuedPayload[f], " " \o QueuedPayload[f] \o " "}]_vars

\* a second save has succeeded with the fields as typed, white space included
C22_Witness ==
    /\ last = "updateOk"
    /\ submits = 2
    /\ formData.waba_id = " 7 "
    /\ formData.name = " Shop "
    /\ formData.graph_api_version = "v22.0"
    /\ \A f \in SecretFields : formData[f] = ""

\* a save is in flight that carries one secret and leaves out a blank one
C22_PayloadSeen ==
    /\ updateRequests # << >>
    /\ updateRequests[1].access_token = "t"
    /\ updateRequests[1].app_secret = Undefined
    /\ updateRequests[1].verify_token = "v"
    /\ formData.app_secret = " "

\* the user has stopped typing and no list request is outstanding
RepliesSettled == ~debounce /\ listRequests = << >>

\* once settled, and no request having failed, the list on display answers
\* the query in the search input
LatestQueryShown ==
    (RepliesSettled /\ listIssued > 0 /\ listErrors = 0) =>
        quickReplies = RepliesFor(QueryParam(searchQuery))

\* the spinner is hidden only when no list request is outstanding
LoadingFalseOnlyWhenIdle == ~loading => listRequests = << >>

\* C28: on the quick replies page, once the user has stopped changing the
\* query and every list request has completed, the list on display is the
\* response to the latest query, and loading is false only when no request is
\* outstanding.
C28_LatestResponseShown == LatestQueryShown /\ LoadingFalseOnlyWhenIdle
====
